---- MODULE Spec2Model ----
(***************************************************************************)
(* Model of eth/db/header.py: HeaderDB, the header database that persists  *)
(* block headers and scores in a key-value store and maintains the         *)
(* canonical chain (block number -> hash lookups and the head pointer).    *)
(*                                                                         *)
(* A hash is modelled as the sequence of difficulties on the path from a   *)
(* genesis-parent header to the header itself: it is injective on header   *)
(* contents, the parent's hash is the sequence without its last element,   *)
(* and the all-zero hash is the empty sequence.                            *)
(***************************************************************************)
EXTENDS Naturals, Sequences, FiniteSets

\* Bound: headers whose cumulative difficulty exceeds MaxScore are not submitted.
MaxScore == 4
\* Bound: number of distinct headers the database and one input hold together.
MaxStored == 4

GENESIS_PARENT_HASH == <<>>

RECURSIVE SumSeq(_)
SumSeq(s) == IF s = <<>> THEN 0 ELSE s[Len(s)] + SumSeq(SubSeq(s, 1, Len(s) - 1))

RECURSIVE HashesOfLen(_)
HashesOfLen(n) ==
    IF n = 0 THEN {GENESIS_PARENT_HASH}
    ELSE {Append(p, d) : p \in HashesOfLen(n - 1), d \in 1..MaxScore}

\* Hashes of all headers with positive difficulties and score at most MaxScore.
Hashes == {h \in UNION {HashesOfLen(n) : n \in 1..MaxScore} : SumSeq(h) <= MaxScore}

\* Keccak-256 of the header's fields: injective on (parent_hash, difficulty).
Keccak(parent_hash, difficulty) == Append(parent_hash, difficulty)

\* The header (BlockHeader) whose hash is hash; block_number is the parent's + 1,
\* and 0 for a header whose parent is the all-zero hash.
BlockHeader(hash) ==
    [hash         |-> hash,
     parent_hash  |-> SubSeq(hash, 1, Len(hash) - 1),
     block_number |-> Len(hash) - 1,
     difficulty   |-> hash[Len(hash)]]

rlp_encode(header) == <<header.parent_hash, header.block_number, header.difficulty>>

decode_block_header(header_rlp) ==
    [hash         |-> Keccak(header_rlp[1], header_rlp[3]),
     parent_hash  |-> header_rlp[1],
     block_number |-> header_rlp[2],
     difficulty   |-> header_rlp[3]]

(***************************************************************************)
(* The key-value store, one map per key family of SchemaV1.                *)
(***************************************************************************)
EmptyMap == [k \in {} |-> 0]

HEAD_KEY == "canonical-head-hash"

EmptyDB == [header |-> EmptyMap, score |-> EmptyMap,
            number_to_hash |-> EmptyMap, head |-> EmptyMap]

MapSet(m, key, value) == [k \in DOMAIN m \cup {key} |-> IF k = key THEN value ELSE m[k]]

VARIABLES db, call

vars == <<db, call>>

(***************************************************************************)
(* Canonical Chain API and Header API (reads).  A lookup that raises in    *)
(* the source is split into a presence test and the value read.            *)
(***************************************************************************)
has_canonical_block_hash(d, block_number) == block_number \in DOMAIN d.number_to_hash

get_canonical_block_hash(d, block_number) == d.number_to_hash[block_number]

header_exists(d, block_hash) == block_hash \in DOMAIN d.header

get_block_header_by_hash(d, block_hash) == decode_block_header(d.header[block_hash])

has_score(d, block_hash) == block_hash \in DOMAIN d.score

get_score(d, block_hash) == d.score[block_hash]

\* get_canonical_block_header_by_number raises HeaderNotFound when the number has
\* no lookup or the hash it names has no header.
has_canonical_block_header_by_number(d, block_number) ==
    /\ has_canonical_block_hash(d, block_number)
    /\ header_exists(d, get_canonical_block_hash(d, block_number))

get_canonical_block_header_by_number(d, block_number) ==
    get_block_header_by_hash(d, get_canonical_block_hash(d, block_number))

has_canonical_head(d) == HEAD_KEY \in DOMAIN d.head

canonical_head_hash(d) == d.head[HEAD_KEY]

get_canonical_head(d) == get_block_header_by_hash(d, canonical_head_hash(d))

(***************************************************************************)
(* Writes.                                                                 *)
(***************************************************************************)
\* Variant of add_block_number_to_hash_lookup that keeps an existing lookup.
add_block_number_to_hash_lookup_if_absent(d, header) ==
    IF header.block_number \in DOMAIN d.number_to_hash THEN d
    ELSE [d EXCEPT !.number_to_hash =
              MapSet(d.number_to_hash, header.block_number, header.hash)]

add_block_number_to_hash_lookup(d, header) ==
    [d EXCEPT !.number_to_hash = MapSet(d.number_to_hash, header.block_number, header.hash)]

\* Variant of the walk that yields the given header and never follows its parent.
find_new_ancestors_tip_only(d, h) ==
    IF /\ has_canonical_block_header_by_number(d, h.block_number)
       /\ get_canonical_block_header_by_number(d, h.block_number).hash = h.hash
    THEN [raised |-> FALSE, hs |-> <<>>]
    ELSE [raised |-> FALSE, hs |-> <<h>>]

\* The walk of _find_new_ancestors, in the order of its yields (tip first).
\* raised is TRUE when a parent's header is missing (HeaderNotFound).
RECURSIVE find_new_ancestors(_, _)
find_new_ancestors(d, h) ==
    IF /\ has_canonical_block_header_by_number(d, h.block_number)
       /\ get_canonical_block_header_by_number(d, h.block_number).hash = h.hash
    THEN [raised |-> FALSE, hs |-> <<>>]
    ELSE IF h.parent_hash = GENESIS_PARENT_HASH
    THEN [raised |-> FALSE, hs |-> <<h>>]
    ELSE IF ~header_exists(d, h.parent_hash)
    THEN [raised |-> TRUE, hs |-> <<h>>]
    ELSE LET rest == find_new_ancestors(d, get_block_header_by_hash(d, h.parent_hash))
         IN  [raised |-> rest.raised, hs |-> <<h>> \o rest.hs]

Reverse(s) == [i \in 1..Len(s) |-> s[Len(s) + 1 - i]]

\* The loop collecting old_canonical_headers from position i of new_canonical_headers;
\* it breaks at the first block number without a lookup.
RECURSIVE find_old_canonical(_, _, _)
find_old_canonical(d, new_canonical_headers, i) ==
    IF i > Len(new_canonical_headers)
    THEN [raised |-> FALSE, hs |-> <<>>]
    ELSE IF ~has_canonical_block_hash(d, new_canonical_headers[i].block_number)
    THEN [raised |-> FALSE, hs |-> <<>>]
    ELSE LET old_canonical_hash ==
                 get_canonical_block_hash(d, new_canonical_headers[i].block_number)
         IN  IF ~header_exists(d, old_canonical_hash)
             THEN [raised |-> TRUE, hs |-> <<>>]
             ELSE LET rest == find_old_canonical(d, new_canonical_headers, i + 1)
                  IN  [raised |-> rest.raised,
                       hs |-> <<get_block_header_by_hash(d, old_canonical_hash)>> \o rest.hs]

\* The loop writing the lookups of new_canonical_headers from position i.
RECURSIVE add_lookups(_, _, _)
add_lookups(d, new_canonical_headers, i) ==
    IF i > Len(new_canonical_headers) THEN d
    ELSE add_lookups(add_block_number_to_hash_lookup(d, new_canonical_headers[i]),
                     new_canonical_headers, i + 1)

set_head(d, block_hash) == [d EXCEPT !.head = MapSet(d.head, HEAD_KEY, block_hash)]

Result(d, outcome, new, old) == [db |-> d, outcome |-> outcome, new |-> new, old |-> old]

set_as_canonical_chain_head(d, block_hash) ==
    IF ~header_exists(d, block_hash) THEN Result(d, "ValueError", <<>>, <<>>)
    ELSE
    LET header == get_block_header_by_hash(d, block_hash)
        found == find_new_ancestors(d, header)
        new_canonical_headers == Reverse(found.hs)
        old == find_old_canonical(d, new_canonical_headers, 1)
    IN  IF found.raised \/ old.raised THEN Result(d, "HeaderNotFound", <<>>, <<>>)
        ELSE Result(set_head(add_lookups(d, new_canonical_headers, 1), header.hash),
                    "returned", new_canonical_headers, old.hs)

\* Variant of the contiguity check that skips the pair (first, second).
is_contiguous_after_first(headers) ==
    \A i \in 2..(Len(headers) - 1) : headers[i].hash = headers[i + 1].parent_hash

\* The contiguity check over sliding_window(2, headers).
is_contiguous(headers) ==
    \A i \in 1..(Len(headers) - 1) : headers[i].hash = headers[i + 1].parent_hash

is_genesis(first_header) == first_header.parent_hash = GENESIS_PARENT_HASH

\* Variant of score_seed that resumes from the first header's own stored score.
score_seed_own(d, first_header) ==
    IF first_header.hash \in DOMAIN d.score THEN d.score[first_header.hash]
    ELSE IF first_header.parent_hash = GENESIS_PARENT_HASH THEN 0
    ELSE d.score[first_header.parent_hash]

\* Variant of score_seed that ignores the parent's score.
score_seed_zero(d, first_header) == 0

score_seed(d, first_header) ==
    IF is_genesis(first_header) THEN 0 ELSE get_score(d, first_header.parent_hash)

\* The loop writing each header and its score, from position i with running score.
RECURSIVE write_headers(_, _, _, _)
write_headers(d, headers, score, i) ==
    IF i > Len(headers) THEN [db |-> d, score |-> score]
    ELSE LET header == headers[i]
             new_score == score + header.difficulty
             d1 == [d EXCEPT !.header = MapSet(d.header, header.hash, rlp_encode(header))]
             d2 == [d1 EXCEPT !.score = MapSet(d1.score, header.hash, new_score)]
         IN  write_headers(d2, headers, new_score, i + 1)

\* Variants of tip_wins: a tie wins; a win needs a margin.
tip_wins_or_ties(score, head_score) == score >= head_score

tip_wins_by_margin(score, head_score) == score > head_score + 1

tip_wins(score, head_score) == score > head_score

persist_header_chain(d, headers) ==
    IF headers = <<>> THEN Result(d, "returned", <<>>, <<>>)
    ELSE
    LET first_header == headers[1] IN
    IF ~is_contiguous(headers) THEN Result(d, "ValidationError", <<>>, <<>>)
    ELSE IF ~is_genesis(first_header) /\ ~header_exists(d, first_header.parent_hash)
    THEN Result(d, "ParentNotFound", <<>>, <<>>)
    ELSE IF ~is_genesis(first_header) /\ ~has_score(d, first_header.parent_hash)
    THEN Result(d, "HeaderNotFound", <<>>, <<>>)
    ELSE
    LET written == write_headers(d, headers, score_seed(d, first_header), 1)
        header == headers[Len(headers)]
    IN  IF ~has_canonical_head(written.db)
        THEN set_as_canonical_chain_head(written.db, header.hash)
        ELSE IF \/ ~header_exists(written.db, canonical_head_hash(written.db))
                \/ ~has_score(written.db, canonical_head_hash(written.db))
        THEN Result(written.db, "HeaderNotFound", <<>>, <<>>)
        ELSE IF tip_wins(written.score,
                         get_score(written.db, get_canonical_head(written.db).hash))
        THEN set_as_canonical_chain_head(written.db, header.hash)
        ELSE Result(written.db, "returned", <<>>, <<>>)

persist_header(d, header) == persist_header_chain(d, <<header>>)

(***************************************************************************)
(* Inputs: chains of headers a caller may submit.                          *)
(***************************************************************************)
\* The contiguous chain of n headers ending at the header with hash tip.
Chain(tip, n) == [i \in 1..n |-> BlockHeader(SubSeq(tip, 1, Len(tip) - n + i))]

ContiguousChains == {Chain(tip, n) : <<tip, n>> \in {x \in Hashes \X (1..MaxScore) : x[2] <= Len(x[1])}}

\* A chain with the header at position j missing.
Gapped(c, j) == [i \in 1..(Len(c) - 1) |-> IF i < j THEN c[i] ELSE c[i + 1]]

\* A chain with the headers at positions j and j + 1 exchanged.
Swapped(c, j) == [i \in 1..Len(c) |-> IF i = j THEN c[j + 1] ELSE IF i = j + 1 THEN c[j] ELSE c[i]]

BrokenChains ==
    {Gapped(x[1], x[2]) : x \in {y \in ContiguousChains \X (1..MaxScore) : y[2] > 1 /\ y[2] < Len(y[1])}}
    \cup
    {Swapped(x[1], x[2]) : x \in {y \in ContiguousChains \X (1..MaxScore) : y[2] < Len(y[1])}}

Inputs == {<<>>} \cup ContiguousChains \cup BrokenChains

HashesIn(headers) == {headers[i].hash : i \in 1..Len(headers)}

Fits(headers) == Cardinality(DOMAIN db.header \cup HashesIn(headers)) <= MaxStored

(***************************************************************************)
(* The state machine: a single writer issuing calls one after the other.   *)
(* call records the call that has just completed: its input, the database  *)
(* before it and what it returned or raised; the caller then takes the     *)
(* result (Return) before it issues the next call.                         *)
(***************************************************************************)
NoCall == [op |-> "none", headers |-> <<>>, pre |-> EmptyDB,
           outcome |-> "none", new |-> <<>>, old |-> <<>>]

Init ==
    /\ db = EmptyDB
    /\ call = NoCall

Do(op, headers, r) ==
    /\ call.op = "none"
    /\ db' = r.db
    /\ call' = [op |-> op, headers |-> headers, pre |-> db,
                outcome |-> r.outcome, new |-> r.new, old |-> r.old]

PersistHeaderChain ==
    \E headers \in Inputs :
        /\ Fits(headers)
        /\ Do("persist_header_chain", headers, persist_header_chain(db, headers))

PersistHeader ==
    \E hash \in Hashes :
        /\ Fits(<<BlockHeader(hash)>>)
        /\ Do("persist_header", <<BlockHeader(hash)>>, persist_header(db, BlockHeader(hash)))

Return ==
    /\ call.op # "none"
    /\ call' = NoCall
    /\ UNCHANGED db

Next == PersistHeaderChain \/ PersistHeader \/ Return

Spec == Init /\ [][Next]_vars

(***************************************************************************)
(* Vocabulary of the properties.                                           *)
(***************************************************************************)
\* The hashes reached by walking parent pointers from block_hash through the
\* headers stored in d, block_hash included.
RECURSIVE AncestorsOrSelf(_, _)
AncestorsOrSelf(d, block_hash) ==
    IF block_hash = GENESIS_PARENT_HASH \/ ~header_exists(d, block_hash) THEN {}
    ELSE {block_hash}
         \cup AncestorsOrSelf(d, get_block_header_by_hash(d, block_hash).parent_hash)

\* The canonical chain of d: the head and its ancestors.
CanonicalChain(d) ==
    IF has_canonical_head(d) THEN AncestorsOrSelf(d, canonical_head_hash(d)) ELSE {}

\* Cumulative difficulty of a header, from the headers themselves.
TrueScore(header) == SumSeq(header.hash)

Tip(headers) == headers[Len(headers)]

HasBreak(headers) ==
    \E i \in 1..(Len(headers) - 1) : headers[i + 1].parent_hash # headers[i].hash

\* A non-empty contiguous input anchored at a stored header or at the all-zero hash.
ValidInput(d, headers) ==
    /\ headers # <<>>
    /\ ~HasBreak(headers)
    /\ \/ headers[1].parent_hash = GENESIS_PARENT_HASH
       \/ headers[1].parent_hash \in DOMAIN d.header

Completed == call.op # "none"

\* The completed call changed the head to the tip of its input.
Switched ==
    /\ Completed
    /\ call.outcome = "returned"
    /\ call.new # <<>>

Ascending(hs) == \A i \in 1..(Len(hs) - 1) : hs[i].block_number < hs[i + 1].block_number

(***************************************************************************)
(* C1: walking parent pointers from the head reproduces the canonical      *)
(* mapping: every ancestor-or-self a of the head has                       *)
(* get_canonical_block_hash(a.block_number) = a.hash.                      *)
(***************************************************************************)
CanonicalChainInv ==
    \A a \in CanonicalChain(db) :
        LET header == get_block_header_by_hash(db, a)
        IN  /\ has_canonical_block_hash(db, header.block_number)
            /\ get_canonical_block_hash(db, header.block_number) = a

(***************************************************************************)
(* C2: canonical coverage: with head h, every k in 0..h.block_number has a *)
(* canonical hash, the header under that hash is stored and has number k.  *)
(***************************************************************************)
CanonicalCoverage ==
    has_canonical_head(db) =>
        /\ header_exists(db, canonical_head_hash(db))
        /\ \A k \in 0..get_canonical_head(db).block_number :
               /\ has_canonical_block_hash(db, k)
               /\ header_exists(db, get_canonical_block_hash(db, k))
               /\ get_canonical_block_header_by_number(db, k).block_number = k

\* A reorg has just replaced canonical headers and the head is above block 0.
CanonicalCoverageWitness ==
    /\ Switched
    /\ call.old # <<>>
    /\ get_canonical_head(db).block_number >= 1

(***************************************************************************)
(* C3: every stored header has a score; it is the header's difficulty when *)
(* the parent is the all-zero hash and the parent's score plus the         *)
(* difficulty otherwise; a call never changes a score stored before it.    *)
(***************************************************************************)
ScoreInv ==
    /\ \A h \in DOMAIN db.header :
           LET header == get_block_header_by_hash(db, h)
           IN  /\ has_score(db, h)
               /\ header.parent_hash = GENESIS_PARENT_HASH
                      => get_score(db, h) = header.difficulty
               /\ header.parent_hash # GENESIS_PARENT_HASH
                      => /\ has_score(db, header.parent_hash)
                         /\ get_score(db, h)
                                = get_score(db, header.parent_hash) + header.difficulty
    /\ \A h \in DOMAIN call.pre.score :
           has_score(db, h) /\ get_score(db, h) = get_score(call.pre, h)

\* A call has just re-persisted a stored header together with a new child of it.
ScoreInvWitness ==
    /\ Completed
    /\ call.outcome = "returned"
    /\ Len(call.headers) >= 2
    /\ call.headers[1].hash \in DOMAIN call.pre.header
    /\ Tip(call.headers).hash \notin DOMAIN call.pre.header

(***************************************************************************)
(* C4: with a head set, a valid input whose tip scores no more than the    *)
(* head returns ((), ()), leaves the head and every block-number lookup    *)
(* unchanged, and stores every input header with its score.                *)
(***************************************************************************)
LosingOrTying ==
    /\ Completed
    /\ ValidInput(call.pre, call.headers)
    /\ has_canonical_head(call.pre)
    /\ TrueScore(Tip(call.headers)) <= get_score(call.pre, canonical_head_hash(call.pre))

NoSwitchOnLosingOrTie ==
    LosingOrTying =>
        /\ call.outcome = "returned"
        /\ call.new = <<>>
        /\ call.old = <<>>
        /\ db.head = call.pre.head
        /\ db.number_to_hash = call.pre.number_to_hash
        /\ \A i \in 1..Len(call.headers) :
               /\ header_exists(db, call.headers[i].hash)
               /\ get_block_header_by_hash(db, call.headers[i].hash) = call.headers[i]
               /\ has_score(db, call.headers[i].hash)
               /\ get_score(db, call.headers[i].hash) = TrueScore(call.headers[i])

\* A new branch of exactly the head's score has just been persisted.
NoSwitchWitness ==
    /\ LosingOrTying
    /\ TrueScore(Tip(call.headers)) = get_score(call.pre, canonical_head_hash(call.pre))
    /\ Tip(call.headers).hash \notin DOMAIN call.pre.header

(***************************************************************************)
(* C5: with a head set, a valid input whose tip scores strictly more than  *)
(* the head makes the tip the head; new_canonical is non-empty, ends with  *)
(* the tip, and each of its headers is the canonical hash of its number.   *)
(***************************************************************************)
Winning ==
    /\ Completed
    /\ ValidInput(call.pre, call.headers)
    /\ has_canonical_head(call.pre)
    /\ TrueScore(Tip(call.headers)) > get_score(call.pre, canonical_head_hash(call.pre))

WinningSwitchInstalls ==
    Winning =>
        /\ call.outcome = "returned"
        /\ has_canonical_head(db)
        /\ header_exists(db, canonical_head_hash(db))
        /\ get_canonical_head(db) = Tip(call.headers)
        /\ call.new # <<>>
        /\ Tip(call.new) = Tip(call.headers)
        /\ \A i \in 1..Len(call.new) :
               /\ has_canonical_block_hash(db, call.new[i].block_number)
               /\ get_canonical_block_hash(db, call.new[i].block_number) = call.new[i].hash

\* A heavier branch of several headers has just displaced canonical headers.
WinningSwitchWitness ==
    /\ Winning
    /\ Len(call.new) >= 2
    /\ call.old # <<>>

(***************************************************************************)
(* C6: when a call switches the head, every header of the previous         *)
(* canonical chain that is not an ancestor-or-self of the new tip is in    *)
(* the returned old_canonical tuple.                                       *)
(***************************************************************************)
DisplacedComplete ==
    Switched =>
        \A x \in CanonicalChain(call.pre) \ AncestorsOrSelf(db, Tip(call.headers).hash) :
            \E i \in 1..Len(call.old) : call.old[i].hash = x

(***************************************************************************)
(* C7: every header of old_canonical is the previous head or one of its    *)
(* ancestors; old_canonical is ascending, no longer than new_canonical and *)
(* parallel to it in block numbers.                                        *)
(***************************************************************************)
DisplacedSound ==
    (Completed /\ call.outcome = "returned") =>
        /\ \A i \in 1..Len(call.old) : call.old[i].hash \in CanonicalChain(call.pre)
        /\ Ascending(call.old)
        /\ Len(call.old) <= Len(call.new)
        /\ \A i \in 1..Len(call.old) :
               call.old[i].block_number = call.new[i].block_number

(***************************************************************************)
(* C8: when a call switches the head to tip T, new_canonical is T and      *)
(* exactly the ancestors of T that were not on the previous canonical      *)
(* chain, ascending, each element the parent of the next.                  *)
(***************************************************************************)
NewCanonicalExact ==
    Switched =>
        /\ {call.new[i].hash : i \in 1..Len(call.new)}
               = AncestorsOrSelf(db, Tip(call.headers).hash) \ CanonicalChain(call.pre)
        /\ \A i \in 1..(Len(call.new) - 1) : call.new[i].hash = call.new[i + 1].parent_hash

(***************************************************************************)
(* C9: the head is set whenever a header is stored, and no stored header   *)
(* has a higher score than the head.                                       *)
(***************************************************************************)
HeadIsHeaviest ==
    DOMAIN db.header # {} =>
        /\ has_canonical_head(db)
        /\ has_score(db, canonical_head_hash(db))
        /\ \A h \in DOMAIN db.header :
               /\ has_score(db, h)
               /\ get_score(db, canonical_head_hash(db)) >= get_score(db, h)

\* A multi-header fork has just been stored without displacing the head.
HeadIsHeaviestWitness ==
    /\ Completed
    /\ call.outcome = "returned"
    /\ Len(call.headers) >= 2
    /\ call.new = <<>>
    /\ \A i \in 1..Len(call.headers) : call.headers[i].hash \notin DOMAIN call.pre.header
    /\ has_canonical_head(db)

(***************************************************************************)
(* C10: an input with a break between adjacent headers raises              *)
(* ValidationError, a contiguous input with an unknown non-zero parent     *)
(* raises ParentNotFound, and neither writes any key.                      *)
(***************************************************************************)
RejectedUnchanged ==
    Completed =>
        /\ HasBreak(call.headers)
               => call.outcome = "ValidationError" /\ db = call.pre
        /\ (/\ call.headers # <<>>
            /\ ~HasBreak(call.headers)
            /\ ~ValidInput(call.pre, call.headers))
               => call.outcome = "ParentNotFound" /\ db = call.pre

\* An input whose only break is at its last pair has just been rejected by a
\* database that already holds headers.
RejectedWitness ==
    /\ Completed
    /\ Len(call.headers) = 3
    /\ call.headers[1].hash = call.headers[2].parent_hash
    /\ call.headers[2].hash # call.headers[3].parent_hash
    /\ call.outcome = "ValidationError"
    /\ DOMAIN call.pre.header # {}

(***************************************************************************)
(* C11: with no head set, a contiguous non-empty input that starts at the  *)
(* all-zero parent hash makes its last header the head, writes a lookup    *)
(* for every input header and returns (the input headers, ()); a database  *)
(* without headers has no head (get_canonical_head raises                  *)
(* CanonicalHeadNotFound).                                                 *)
(***************************************************************************)
Bootstrapping ==
    /\ Completed
    /\ ~has_canonical_head(call.pre)
    /\ call.headers # <<>>
    /\ ~HasBreak(call.headers)
    /\ call.headers[1].parent_hash = GENESIS_PARENT_HASH

BootstrapInstalls ==
    /\ DOMAIN db.header = {} => ~has_canonical_head(db)
    /\ Bootstrapping =>
           /\ call.outcome = "returned"
           /\ has_canonical_head(db)
           /\ canonical_head_hash(db) = Tip(call.headers).hash
           /\ call.new = call.headers
           /\ call.old = <<>>
           /\ \A i \in 1..Len(call.headers) :
                  /\ has_canonical_block_hash(db, call.headers[i].block_number)
                  /\ get_canonical_block_hash(db, call.headers[i].block_number)
                         = call.headers[i].hash

\* Several headers have just been persisted into a database without a head.
BootstrapWitness ==
    /\ Bootstrapping
    /\ Len(call.headers) >= 2
    /\ call.outcome = "returned"

(***************************************************************************)
(* C16: a call on an input that passes the contiguity and parent checks    *)
(* returns; no call raises HeaderNotFound or the unknown-hash ValueError;  *)
(* the ancestor walk from any stored header ends without a missing         *)
(* ancestor; every stored header has the all-zero parent hash or a stored  *)
(* parent.                                                                 *)
(***************************************************************************)
SwitchNeverFails ==
    /\ Completed => call.outcome \in {"returned", "ValidationError", "ParentNotFound"}
    /\ (Completed /\ ValidInput(call.pre, call.headers)) => call.outcome = "returned"
    /\ \A h \in DOMAIN db.header :
           LET header == get_block_header_by_hash(db, h)
           IN  /\ \/ header.parent_hash = GENESIS_PARENT_HASH
                  \/ header_exists(db, header.parent_hash)
               /\ ~find_new_ancestors(db, header).raised

\* The ancestor walk of a switch has just stopped at a canonical header after
\* several new ancestors.
SwitchNeverFailsWitness ==
    /\ Switched
    /\ Len(call.new) >= 2
    /\ call.new[1].parent_hash # GENESIS_PARENT_HASH

(***************************************************************************)
(* C18: persisting an accepted sequence in one persist_header_chain call   *)
(* leaves the same database as persist_header on each header in order.     *)
(***************************************************************************)
RECURSIVE persist_one_by_one(_, _, _)
persist_one_by_one(d, headers, i) ==
    IF i > Len(headers) THEN d
    ELSE persist_one_by_one(persist_header(d, headers[i]).db, headers, i + 1)

BatchAgreesWithSingles ==
    (/\ Completed
     /\ call.op = "persist_header_chain"
     /\ ValidInput(call.pre, call.headers))
        => db = persist_one_by_one(call.pre, call.headers, 1)

\* A batch of new headers has just displaced the head, and its first header
\* alone already outweighs the previous head.
BatchAgreesWitness ==
    /\ Switched
    /\ call.op = "persist_header_chain"
    /\ Len(call.headers) >= 2
    /\ has_canonical_head(call.pre)
    /\ call.old # <<>>
    /\ \A i \in 1..Len(call.headers) : call.headers[i].hash \notin DOMAIN call.pre.header
    /\ TrueScore(call.headers[1]) > get_score(call.pre, canonical_head_hash(call.pre))

(***************************************************************************)
(* C17: a second call with the same headers, right after a call that       *)
(* returned, returns ((), ()) and leaves every key as the first call left  *)
(* it.                                                                     *)
(***************************************************************************)
\* The caller repeats the call that has just returned.
Repersist ==
    /\ call.op \in {"persist_header_chain", "persist_header"}
    /\ call.outcome = "returned"
    /\ LET r == persist_header_chain(db, call.headers)
       IN  /\ db' = r.db
           /\ call' = [op |-> "repeat", headers |-> call.headers, pre |-> db,
                       outcome |-> r.outcome, new |-> r.new, old |-> r.old]

NextRepeat == Next \/ Repersist

SpecRepeat == Init /\ [][NextRepeat]_vars

RepersistIdempotent ==
    call.op = "repeat" =>
        /\ call.outcome = "returned"
        /\ call.new = <<>>
        /\ call.old = <<>>
        /\ db = call.pre

\* A chain of headers whose tip became the head has just been persisted again.
RepersistWitness ==
    /\ call.op = "repeat"
    /\ Len(call.headers) >= 2
    /\ has_canonical_head(db)
    /\ canonical_head_hash(db) = Tip(call.headers).hash

(***************************************************************************)
(* C15: a call with a one-shot iterator of headers behaves as the call     *)
(* with the tuple of the same headers: same checks, same writes, same      *)
(* result.                                                                 *)
(***************************************************************************)
\* persist_header_chain on a one-shot iterator: first(headers) consumes the first
\* header, sliding_window(2, headers) runs over the rest and exhausts the
\* iterator, and the write loop finds nothing left, so that header is unbound
\* where the head would be set.
persist_header_chain_one_shot(d, headers) ==
    IF headers = <<>> THEN Result(d, "returned", <<>>, <<>>)
    ELSE
    LET first_header == headers[1]
        after_first == Tail(headers)
    IN
    IF ~is_contiguous(after_first) THEN Result(d, "ValidationError", <<>>, <<>>)
    ELSE IF ~is_genesis(first_header) /\ ~header_exists(d, first_header.parent_hash)
    THEN Result(d, "ParentNotFound", <<>>, <<>>)
    ELSE IF ~is_genesis(first_header) /\ ~has_score(d, first_header.parent_hash)
    THEN Result(d, "HeaderNotFound", <<>>, <<>>)
    ELSE
    LET written == write_headers(d, <<>>, score_seed(d, first_header), 1)
    IN  IF ~has_canonical_head(written.db)
        THEN Result(written.db, "UnboundLocalError", <<>>, <<>>)
        ELSE IF \/ ~header_exists(written.db, canonical_head_hash(written.db))
                \/ ~has_score(written.db, canonical_head_hash(written.db))
        THEN Result(written.db, "HeaderNotFound", <<>>, <<>>)
        ELSE IF tip_wins(written.score,
                         get_score(written.db, get_canonical_head(written.db).hash))
        THEN Result(written.db, "UnboundLocalError", <<>>, <<>>)
        ELSE Result(written.db, "returned", <<>>, <<>>)

PersistHeaderChainOneShot ==
    \E headers \in Inputs :
        /\ Fits(headers)
        /\ Do("persist_header_chain_one_shot", headers,
              persist_header_chain_one_shot(db, headers))

NextLazy == Next \/ PersistHeaderChainOneShot

SpecLazy == Init /\ [][NextLazy]_vars

LazyMaterialized ==
    call.op = "persist_header_chain_one_shot" =>
        LET r == persist_header_chain(call.pre, call.headers)
        IN  /\ call.outcome = r.outcome
            /\ call.new = r.new
            /\ call.old = r.old
            /\ db = r.db

(***************************************************************************)
(* The call write by write.  In SpecSteps the variable call holds the      *)
(* frame of the persist_header_chain call in progress: its position pc,    *)
(* the loop index i, the running score, the tuples of the switch and the   *)
(* backend writes made so far; every backend write is one step, so that a  *)
(* reader may run between any two writes.                                  *)
(***************************************************************************)
\* Variant of put_score that does not write.
put_score_skipped(d, block_hash, score) == d

put_header(d, header) ==
    [d EXCEPT !.header = MapSet(d.header, header.hash, rlp_encode(header))]

put_score(d, block_hash, score) ==
    [d EXCEPT !.score = MapSet(d.score, block_hash, score)]

\* Variant of switch_order that writes the head before the lookups.
switch_order_head_first == <<"set_head", "add_lookup">>

\* The writes of _set_as_canonical_chain_head in program order.
switch_order == <<"add_lookup", "set_head">>

AfterPhase(phase) ==
    LET k == CHOOSE j \in 1..Len(switch_order) : switch_order[j] = phase
    IN  IF k < Len(switch_order) THEN switch_order[k + 1] ELSE "done"

Frame(headers, pc, outcome, score) ==
    [op |-> "stepping", pc |-> pc, headers |-> headers, pre |-> db, i |-> 1,
     score |-> score, new |-> <<>>, old |-> <<>>, outcome |-> outcome, writes |-> <<>>]

Stepping(pc) == call.op = "stepping" /\ call.pc = pc

Written(kind, key) == Append(call.writes, [kind |-> kind, key |-> key])

\* The checks before the first write.
StepBegin ==
    /\ call.op = "none"
    /\ \E headers \in Inputs :
           /\ Fits(headers)
           /\ call' =
                  IF headers = <<>> THEN Frame(headers, "done", "returned", 0)
                  ELSE IF ~is_contiguous(headers)
                  THEN Frame(headers, "done", "ValidationError", 0)
                  ELSE IF /\ ~is_genesis(headers[1])
                          /\ ~header_exists(db, headers[1].parent_hash)
                  THEN Frame(headers, "done", "ParentNotFound", 0)
                  ELSE IF ~is_genesis(headers[1]) /\ ~has_score(db, headers[1].parent_hash)
                  THEN Frame(headers, "done", "HeaderNotFound", 0)
                  ELSE Frame(headers, "put_header", "none", score_seed(db, headers[1]))
    /\ UNCHANGED db

StepPutHeader ==
    /\ Stepping("put_header")
    /\ db' = put_header(db, call.headers[call.i])
    /\ call' = [call EXCEPT !.pc = "put_score",
                            !.writes = Written("header", call.headers[call.i].hash)]

StepPutScore ==
    /\ Stepping("put_score")
    /\ LET header == call.headers[call.i]
           score == call.score + header.difficulty
       IN  /\ db' = put_score(db, header.hash, score)
           /\ call' = [call EXCEPT
                  !.score = score,
                  !.i = call.i + 1,
                  !.pc = IF call.i < Len(call.headers) THEN "put_header" ELSE "decide",
                  !.writes = Written("score", header.hash)]

\* The head decision and the reads of _set_as_canonical_chain_head.
StepDecide ==
    /\ Stepping("decide")
    /\ LET header == Tip(call.headers)
           done(outcome) == [call EXCEPT !.pc = "done", !.outcome = outcome]
           switch ==
               IF ~header_exists(db, header.hash) THEN done("ValueError")
               ELSE LET found == find_new_ancestors(db, get_block_header_by_hash(db, header.hash))
                        new_canonical_headers == Reverse(found.hs)
                        old == find_old_canonical(db, new_canonical_headers, 1)
                    IN  IF found.raised \/ old.raised THEN done("HeaderNotFound")
                        ELSE [call EXCEPT !.pc = switch_order[1], !.i = 1,
                                          !.new = new_canonical_headers, !.old = old.hs]
       IN  call' =
               IF ~has_canonical_head(db) THEN switch
               ELSE IF \/ ~header_exists(db, canonical_head_hash(db))
                       \/ ~has_score(db, canonical_head_hash(db))
               THEN done("HeaderNotFound")
               ELSE IF tip_wins(call.score, get_score(db, get_canonical_head(db).hash))
               THEN switch
               ELSE done("returned")
    /\ UNCHANGED db

StepAddLookup ==
    /\ Stepping("add_lookup")
    /\ IF call.i <= Len(call.new)
       THEN /\ db' = add_block_number_to_hash_lookup(db, call.new[call.i])
            /\ call' = [call EXCEPT !.i = call.i + 1,
                                    !.writes = Written("lookup", call.new[call.i].hash)]
       ELSE /\ call' = [call EXCEPT !.pc = AfterPhase("add_lookup"),
                                    !.outcome = IF AfterPhase("add_lookup") = "done"
                                                THEN "returned" ELSE call.outcome]
            /\ UNCHANGED db

StepSetHead ==
    /\ Stepping("set_head")
    /\ db' = set_head(db, Tip(call.headers).hash)
    /\ call' = [call EXCEPT !.pc = AfterPhase("set_head"),
                            !.outcome = IF AfterPhase("set_head") = "done"
                                        THEN "returned" ELSE call.outcome,
                            !.writes = Written("head", Tip(call.headers).hash)]

StepReturn ==
    /\ call.op = "stepping"
    /\ call.pc \in {"done", "crashed"}
    /\ call' = NoCall
    /\ UNCHANGED db

NextSteps ==
    \/ StepBegin
    \/ StepPutHeader
    \/ StepPutScore
    \/ StepDecide
    \/ StepAddLookup
    \/ StepSetHead
    \/ StepReturn

SpecSteps == Init /\ [][NextSteps]_vars

\* The call is cut off (crash, cancellation) after one of its writes and before
\* it has completed.
Crash ==
    /\ call.op = "stepping"
    /\ call.pc \notin {"done", "crashed"}
    /\ call.writes # <<>>
    /\ call' = [call EXCEPT !.pc = "crashed"]
    /\ UNCHANGED db

NextCrash == NextSteps \/ Crash

SpecCrash == Init /\ [][NextCrash]_vars

(***************************************************************************)
(* C12: within one call, each header's write precedes its score's write;   *)
(* no lookup and not the head is written before the header and score of    *)
(* every input header; all lookup writes precede the head write, which is  *)
(* the last write of the call.                                             *)
(***************************************************************************)
WroteBefore(p, kind, key) ==
    \E q \in 1..(p - 1) : call.writes[q] = [kind |-> kind, key |-> key]

WriteOrder ==
    call.op = "stepping" =>
        /\ \A p \in 1..Len(call.writes) :
               LET w == call.writes[p]
               IN  /\ w.kind = "score" => WroteBefore(p, "header", w.key)
                   /\ w.kind \in {"lookup", "head"} =>
                          \A i \in 1..Len(call.headers) :
                              /\ WroteBefore(p, "header", call.headers[i].hash)
                              /\ WroteBefore(p, "score", call.headers[i].hash)
                   /\ w.kind = "head" =>
                          /\ p = Len(call.writes)
                          /\ \A j \in 1..Len(call.new) :
                                 WroteBefore(p, "lookup", call.new[j].hash)
                   /\ w.kind = "lookup" =>
                          \A q \in 1..(p - 1) : call.writes[q].kind # "head"
        /\ (call.pc = "done" /\ call.outcome = "returned") =>
               \A i \in 1..Len(call.headers) :
                   /\ WroteBefore(Len(call.writes) + 1, "header", call.headers[i].hash)
                   /\ WroteBefore(Len(call.writes) + 1, "score", call.headers[i].hash)

\* A call of several headers has completed a switch that wrote several lookups.
WriteOrderWitness ==
    /\ Stepping("done")
    /\ Len(call.headers) >= 2
    /\ Len(call.new) >= 2
    /\ call.writes # <<>>
    /\ call.writes[Len(call.writes)].kind = "head"

(***************************************************************************)
(* C13: in every state between two writes, a head that is set names a      *)
(* stored header with a stored score, and so does every ancestor of it     *)
(* down to a header with the all-zero parent hash.                         *)
(***************************************************************************)
RECURSIVE StoredToGenesis(_, _)
StoredToGenesis(d, block_hash) ==
    /\ header_exists(d, block_hash)
    /\ has_score(d, block_hash)
    /\ LET parent_hash == get_block_header_by_hash(d, block_hash).parent_hash
       IN  parent_hash = GENESIS_PARENT_HASH \/ StoredToGenesis(d, parent_hash)

NoDanglingHead ==
    has_canonical_head(db) => StoredToGenesis(db, canonical_head_hash(db))

\* A reader between the lookup writes of a switch and its head write: the lookups
\* already name the new branch while the head is still the old one.
NoDanglingHeadWitness ==
    /\ Stepping("set_head")
    /\ has_canonical_head(db)
    /\ canonical_head_hash(db) # Tip(call.headers).hash
    /\ Len(call.new) >= 2
    /\ call.old # <<>>

(***************************************************************************)
(* C14: the database left by a call cut off between two of its writes      *)
(* satisfies the data-model invariants: every stored header has a score,   *)
(* every lookup names a stored header of that number, and the lookups for  *)
(* 0..head.block_number chain by parent up to the head.                    *)
(***************************************************************************)
DataModelInv(d) ==
    /\ \A h \in DOMAIN d.header : has_score(d, h)
    /\ \A n \in DOMAIN d.number_to_hash :
           /\ header_exists(d, get_canonical_block_hash(d, n))
           /\ get_canonical_block_header_by_number(d, n).block_number = n
    /\ (has_canonical_head(d) /\ header_exists(d, canonical_head_hash(d))) =>
           LET head == get_canonical_head(d)
           IN  /\ \A k \in 0..head.block_number : has_canonical_block_hash(d, k)
               /\ has_canonical_block_hash(d, head.block_number)
                      => get_canonical_block_hash(d, head.block_number) = head.hash
               /\ \A k \in 1..head.block_number :
                      has_canonical_block_header_by_number(d, k) =>
                          /\ has_canonical_block_hash(d, k - 1)
                          /\ get_canonical_block_header_by_number(d, k).parent_hash
                                 = get_canonical_block_hash(d, k - 1)

CrashTolerant ==
    Stepping("crashed") => DataModelInv(db)

====
